---------------------------- MODULE Spec2Model ----------------------------
(***************************************************************************)
(* Model of iie.py: the incremental, resumable pipeline that walks the     *)
(* irasutoya source list, translates and/or downloads each record with     *)
(* retry on network errors, and persists the enriched list.                *)
(*                                                                         *)
(* One run of main() and the generator _process() it consumes are one      *)
(* sequential flow; pc is the position of that flow.  The record texts are *)
(* sequences of tokens, a published_at is the list of its space-separated  *)
(* words, each word the list of its dash-separated components.             *)
(***************************************************************************)
EXTENDS Naturals, Integers, Sequences, FiniteSets, TLC

\* ----- bounds of the model ------------------------------------------------
MaxN == 3            \* longest source list
MaxRetriesOpt == 2   \* largest value given to --retries

\* ----- values -------------------------------------------------------------
Names  == <<"a.png", "b.png", "c.png", "d.png", "e.png">>
Titles == <<"t1", "t2", "t3", "t4", "t5">>

\* "2020-01-05 10:00:00" and "2020-01 10:00:00"
GoodDate == << <<"2020", "01", "05">>, <<"10:00:00">> >>
BadDate  == << <<"2020", "01">>, <<"10:00:00">> >>
EmptyStr == << <<"">> >>     \* ''.split(' ') = [''], ''.split('-') = ['']
PublishedAtValues == {GoodDate, BadDate}

SourceRecord(i, p) ==
    [image_url |-> <<"http:", "", "x", Names[i]>>,
     published_at |-> p,
     title |-> <<Titles[i]>>]

\* every source list of length n: record i carries the i-th name and title
SourceLists(n) ==
    { [i \in 1..n |-> SourceRecord(i, ps[i])] : ps \in [1..n -> PublishedAtValues] }

NoCall == [fn |-> "none"]        \* no helper call is being followed

Unbound == [unbound |-> TRUE]    \* a local name that has no value yet
IsBound(v) == "unbound" \notin DOMAIN v

VARIABLES
    source,         \* the cached origin dataset (irasutoya.json)
    cached,         \* the origin dataset is in OUTPUT_DIR
    file,           \* output/irasutoya_with_en.json: [exists, content]
    pc,             \* position of the run
    download, translate, max_retries,    \* main's resolved parameters
    output_json,    \* main's in-memory collection
    start_at,       \* len(output_json) when _get_irasutoya_json was called
    illustrations,  \* the list handed to _process
    idx,            \* number of illustrations the outer for has finished
    attempt,        \* loop variable of range(max_retries)
    job_done, new_obj,                   \* locals of _process
    gen,            \* generator: "none","running","completed","aborted","raised"
    exit,           \* how the last run left main: "none","clean","raised"
    cause,          \* why the batch stopped: "none","exhausted","interrupt",
                    \* "unexpected","unbound","fetch"
    interrupted_in, \* pc at which the user interrupt arrived, or "none"
    started,        \* history: source indices (0-based) whose attempts began
    emitted,        \* history: records yielded by _process in this run
    nattempts,      \* history: attempts begun on the current record
    ntransforms,    \* history: _transform calls on the current record
    ndelays,        \* history: sleep(30) calls begun on the current record
    nneterrors,     \* history: errors of the current record handled by the
                    \* clause at line 193
    failed_in,      \* history: where the last of them was raised:
                    \* "transform", "download", or "http" (a status error)
    file_at_start,  \* history: the file when the run started
    passed,         \* history: the flags given on the command line
    total_attempts, \* history: attempts begun in this run, all records
    call            \* a single call of one of the helper functions

vars == <<source, cached, file, pc, download, translate, max_retries,
          output_json, start_at, illustrations, idx, attempt, job_done,
          new_obj, gen, exit, cause, interrupted_in, started, emitted,
          nattempts, ntransforms, ndelays, nneterrors, failed_in,
          file_at_start, passed, total_attempts, call>>

\* ----- pure functions -----------------------------------------------------

\* dict.get(key, default)
Get(d, k, default) == IF k \in DOMAIN d THEN d[k] ELSE default

\* seq[:-1]
AllButLast(s) == IF Len(s) = 0 THEN <<>> ELSE SubSeq(s, 1, Len(s) - 1)

\* _get_filename_from_url: url.split('/')[-1]
GetFilenameFromUrl(url) == url[Len(url)]

\* _get_publibed_year_month: year, month = split(' ')[0].split('-')[:-1]
\* the unpacking raises ValueError unless exactly two components remain
GetPublishedYearMonth(published_at) ==
    LET parts == AllButLast(published_at[1])
    IN  IF Len(parts) = 2
        THEN [ok |-> TRUE, year |-> parts[1], month |-> parts[2]]
        ELSE [ok |-> FALSE, year |-> "", month |-> ""]

\* _translate on a successful request: '' for falsy text
Translate(text) == IF text = <<>> THEN <<>> ELSE <<"en">> \o text

\* _transform when every translation request succeeds and the date parses
Transform(original) ==
    LET ym == GetPublishedYearMonth(Get(original, "published_at", EmptyStr))
        filename == GetFilenameFromUrl(Get(original, "image_url", <<"">>))
    IN  [title_en |-> Translate(Get(original, "title", <<>>)),
         description_en |-> Translate(Get(original, "description", <<>>)),
         categories_en |-> Translate(Get(original, "categories", <<>>)),
         image_alt_en |-> Translate(Get(original, "image_alt", <<>>)),
         directory_path |-> <<".", "images", ym.year, ym.month, filename>>]
        @@ original

\* _transform raises ValueError at line 126
TransformRaises(original) ==
    ~GetPublishedYearMonth(Get(original, "published_at", EmptyStr)).ok

\* position (0-based) of a record in the source list; the records of a
\* source list are pairwise distinct
SourceIndex(rec) == (CHOOSE i \in 1..Len(source) : source[i] = rec) - 1

\* main lines 234-236
ArgumentNotPassed(d, t) == ~d /\ ~t
ResolveDownload(d, t) == d \/ ArgumentNotPassed(d, t)

\* variant: no default for translate when no flag is given
ResolveTranslate_NoDefault(d, t) == t

ResolveTranslate(d, t) == t \/ ArgumentNotPassed(d, t)

\* main lines 239-242
LoadOutput(f) == IF f.exists THEN f.content ELSE <<>>

\* variant: the slice starts one record early
GetIrasutoyaJson_OffByOne(src, k) ==
    IF k = 0 THEN src ELSE SubSeq(src, k, Len(src))

\* variant: the resume offset is ignored
GetIrasutoyaJson_NoOffset(src, k) == src

\* _get_irasutoya_json line 54: json.load(f)[start_at:]
GetIrasutoyaJson(src, k) == SubSeq(src, k + 1, Len(src))

\* variant: the cap is compared one attempt too late
RetriesExhausted_Late(a, m) == a >= m

\* _process line 196
RetriesExhausted(a, m) == a >= m - 1

\* variant: the collection is written whatever the flags
ShouldPersist_Always(d, t) == d \/ t

\* main line 248
ShouldPersist(d, t) == t

\* ----- initial state ------------------------------------------------------
Init ==
    /\ source \in UNION { SourceLists(n) : n \in 0..MaxN }
    /\ cached = FALSE
    /\ file = [exists |-> FALSE, content |-> <<>>]
    /\ pc = "idle"
    /\ download = FALSE /\ translate = FALSE /\ max_retries = 0
    /\ output_json = <<>>
    /\ start_at = 0
    /\ illustrations = <<>>
    /\ idx = 0
    /\ attempt = 0
    /\ job_done = FALSE
    /\ new_obj = Unbound
    /\ gen = "none"
    /\ exit = "none"
    /\ cause = "none"
    /\ interrupted_in = "none"
    /\ started = <<>>
    /\ emitted = <<>>
    /\ nattempts = 0
    /\ ntransforms = 0
    /\ ndelays = 0
    /\ nneterrors = 0
    /\ failed_in = "none"
    /\ file_at_start = file
    /\ passed = [download |-> FALSE, translate |-> FALSE]
    /\ total_attempts = 0
    /\ call = NoCall

\* ----- main ---------------------------------------------------------------

\* main lines 230-245 up to the creation of the generator: resolve the flags,
\* load the existing collection, slice the source list at its length.
\* _get_irasutoya_json downloads the origin dataset when it is not cached.
StartRun(d, t, r) ==
    /\ pc = "idle"
    /\ cached' = TRUE
    /\ download' = ResolveDownload(d, t)
    /\ translate' = ResolveTranslate(d, t)
    /\ max_retries' = r
    /\ output_json' = LoadOutput(file)
    /\ start_at' = Len(LoadOutput(file))
    /\ illustrations' = GetIrasutoyaJson(source, Len(LoadOutput(file)))
    /\ idx' = 0
    /\ attempt' = -1
    /\ job_done' = FALSE
    /\ new_obj' = Unbound
    /\ gen' = "running"
    /\ exit' = "none"
    /\ cause' = "none"
    /\ interrupted_in' = "none"
    /\ started' = <<>>
    /\ emitted' = <<>>
    /\ nattempts' = 0
    /\ ntransforms' = 0
    /\ ndelays' = 0
    /\ nneterrors' = 0
    /\ failed_in' = "none"
    /\ file_at_start' = file
    /\ passed' = [download |-> d, translate |-> t]
    /\ total_attempts' = 0
    /\ pc' = "for"
    /\ UNCHANGED <<source, file, call>>

\* _get_irasutoya_json line 51: the download of the origin dataset fails and
\* the exception leaves main before _process is called
FetchFails ==
    /\ pc = "idle"
    /\ ~cached
    /\ exit' = "raised"
    /\ cause' = "fetch"
    /\ gen' = "none"
    /\ output_json' = LoadOutput(file)
    /\ file_at_start' = file
    /\ interrupted_in' = "none"
    /\ started' = <<>>
    /\ emitted' = <<>>
    /\ UNCHANGED <<source, cached, file, pc, download, translate, max_retries,
                   start_at, illustrations, idx, attempt, job_done, new_obj,
                   nattempts, ntransforms, ndelays, nneterrors, failed_in,
                   passed, total_attempts, call>>

\* variant: only the records of this run are written
Persist_OnlyNew ==
    /\ pc = "persist"
    /\ file' = IF ShouldPersist(download, translate)
               THEN [exists |-> TRUE, content |-> emitted]
               ELSE file
    /\ exit' = "clean"
    /\ pc' = "idle"
    /\ UNCHANGED <<source, cached, download, translate, max_retries,
                   output_json, start_at, illustrations, idx, attempt,
                   job_done, new_obj, gen, cause, interrupted_in, started,
                   emitted, nattempts, ntransforms, ndelays, nneterrors,
                   failed_in, file_at_start, passed, total_attempts, call>>

\* main lines 248-255: the for loop over the generator has ended normally
Persist ==
    /\ pc = "persist"
    /\ file' = IF ShouldPersist(download, translate)
               THEN [exists |-> TRUE, content |-> output_json]
               ELSE file
    /\ exit' = "clean"
    /\ pc' = "idle"
    /\ UNCHANGED <<source, cached, download, translate, max_retries,
                   output_json, start_at, illustrations, idx, attempt,
                   job_done, new_obj, gen, cause, interrupted_in, started,
                   emitted, nattempts, ntransforms, ndelays, nneterrors,
                   failed_in, file_at_start, passed, total_attempts, call>>

\* ----- _process -----------------------------------------------------------

\* an exception leaves the generator; main does not catch it, so it leaves
\* main as well and lines 248-255 are not reached
Propagate(c) ==
    /\ gen' = "raised"
    /\ exit' = "raised"
    /\ cause' = c
    /\ pc' = "idle"

\* a return inside the generator: main's for loop ends normally
Return(c) ==
    /\ gen' = "aborted"
    /\ cause' = c
    /\ pc' = "persist"

\* line 172-174: the outer for takes the next illustration, or the list is
\* exhausted and the generator finishes
ForIllustration ==
    /\ pc = "for"
    /\ IF idx < Len(illustrations)
       THEN /\ job_done' = FALSE
            /\ attempt' = -1
            /\ nattempts' = 0
            /\ ntransforms' = 0
            /\ ndelays' = 0
            /\ nneterrors' = 0
            /\ failed_in' = "none"
            /\ pc' = "range"
            /\ UNCHANGED gen
       ELSE /\ gen' = "completed"
            /\ pc' = "persist"
            /\ UNCHANGED <<job_done, attempt, nattempts, ntransforms, ndelays,
                           nneterrors, failed_in>>
    /\ UNCHANGED <<source, cached, file, download, translate, max_retries,
                   output_json, start_at, illustrations, idx, new_obj, exit,
                   cause, interrupted_in, started, emitted, file_at_start,
                   passed, total_attempts, call>>

\* line 176: for attempt in range(max_retries); when the range is used up
\* without a break, control falls to the yield at line 214
RangeNext ==
    /\ pc = "range"
    /\ IF attempt + 1 < max_retries
       THEN /\ attempt' = attempt + 1
            /\ nattempts' = nattempts + 1
            /\ total_attempts' = total_attempts + 1
            /\ started' = IF nattempts = 0
                          THEN Append(started, SourceIndex(illustrations[idx + 1]))
                          ELSE started
            /\ pc' = "try"
       ELSE /\ pc' = "yield"
            /\ UNCHANGED <<attempt, nattempts, started, total_attempts>>
    /\ UNCHANGED <<source, cached, file, download, translate, max_retries,
                   output_json, start_at, illustrations, idx, job_done,
                   new_obj, gen, exit, cause, interrupted_in, emitted,
                   ntransforms, ndelays, nneterrors, failed_in, file_at_start,
                   passed, call>>

UnchangedInTry ==
    UNCHANGED <<source, cached, file, download, translate, max_retries,
                output_json, start_at, illustrations, idx, attempt, gen,
                exit, cause, interrupted_in, started, emitted, nattempts,
                ndelays, file_at_start, passed, total_attempts, call>>

\* line 180, translate off: new_obj is the illustration itself
PassThrough ==
    /\ pc = "try"
    /\ ~translate
    /\ new_obj' = illustrations[idx + 1]
    /\ pc' = "parse"
    /\ UNCHANGED <<job_done, ntransforms>>
    /\ UNCHANGED <<nneterrors, failed_in>>
    /\ UnchangedInTry

\* line 180, translate on, every translation request answered: _transform
\* returns the enriched record, or raises ValueError on a malformed date
TransformAnswered ==
    /\ pc = "try"
    /\ translate
    /\ ntransforms' = ntransforms + 1
    /\ IF TransformRaises(illustrations[idx + 1])
       THEN pc' = "except_other" /\ UNCHANGED new_obj
       ELSE pc' = "parse" /\ new_obj' = Transform(illustrations[idx + 1])
    /\ UNCHANGED job_done
    /\ UNCHANGED <<nneterrors, failed_in>>
    /\ UnchangedInTry

\* line 180: a translation request raises an OSError (socket error, timeout)
TransformNetworkError ==
    /\ pc = "try"
    /\ translate
    /\ ntransforms' = ntransforms + 1
    /\ pc' = "except_net"
    /\ UNCHANGED <<job_done, new_obj>>
    /\ nneterrors' = nneterrors + 1
    /\ failed_in' = "transform"
    /\ UnchangedInTry

\* line 180: the translation service raises something that is not an OSError
TransformServiceError ==
    /\ pc = "try"
    /\ translate
    /\ ntransforms' = ntransforms + 1
    /\ pc' = "except_other"
    /\ UNCHANGED <<job_done, new_obj>>
    /\ UNCHANGED <<nneterrors, failed_in>>
    /\ UnchangedInTry

\* lines 182-184 and, with download off, 191 and the break at 211-212
ParseYearMonth ==
    /\ pc = "parse"
    /\ IF ~GetPublishedYearMonth(Get(new_obj, "published_at", EmptyStr)).ok
       THEN pc' = "except_other" /\ UNCHANGED job_done
       ELSE IF download
            THEN pc' = "download" /\ UNCHANGED job_done
            ELSE pc' = "yield" /\ job_done' = TRUE
    /\ UNCHANGED <<new_obj, ntransforms>>
    /\ UNCHANGED <<nneterrors, failed_in>>
    /\ UnchangedInTry

\* lines 185-191 and the break at 211-212: the image is downloaded
DownloadOk ==
    /\ pc = "download"
    /\ job_done' = TRUE
    /\ pc' = "yield"
    /\ UNCHANGED <<new_obj, ntransforms>>
    /\ UNCHANGED <<nneterrors, failed_in>>
    /\ UnchangedInTry

\* lines 187-189: requests raises an OSError
DownloadNetworkError ==
    /\ pc = "download"
    /\ pc' = "except_net"
    /\ UNCHANGED <<job_done, new_obj, ntransforms>>
    /\ nneterrors' = nneterrors + 1
    /\ failed_in' = "download"
    /\ UnchangedInTry

\* line 100: raise_for_status raises requests' HTTPError, which is an
\* IOError, that is an OSError, that is socket.error: the clause at line 193
\* handles it like a socket error
DownloadHttpError ==
    /\ pc = "download"
    /\ pc' = "except_net"
    /\ UNCHANGED <<job_done, new_obj, ntransforms>>
    /\ nneterrors' = nneterrors + 1
    /\ failed_in' = "http"
    /\ UnchangedInTry

\* KeyboardInterrupt raised inside the try body (lines 180-191)
InterruptInTry ==
    /\ pc \in {"try", "parse", "download"}
    /\ interrupted_in' = pc
    /\ pc' = "except_abort"
    /\ UNCHANGED <<source, cached, file, download, translate, max_retries,
                   output_json, start_at, illustrations, idx, attempt,
                   job_done, new_obj, gen, exit, cause, started, emitted,
                   nattempts, ntransforms, ndelays, nneterrors, failed_in,
                   file_at_start, passed, total_attempts, call>>

UnchangedInHandler ==
    UNCHANGED <<source, cached, file, download, translate, max_retries,
                output_json, start_at, illustrations, job_done,
                new_obj, interrupted_in, started, emitted, nattempts,
                ntransforms, nneterrors, failed_in, file_at_start, passed,
                total_attempts, call>>

\* variant: at the cap the handler leaves the retry loop (break) instead of
\* the generator, so control reaches the yield
ExceptNetwork_Break ==
    /\ pc = "except_net"
    /\ IF RetriesExhausted(attempt, max_retries)
       THEN pc' = "yield" /\ UNCHANGED <<gen, cause, ndelays, exit>>
       ELSE pc' = "sleep" /\ ndelays' = ndelays + 1
            /\ UNCHANGED <<gen, cause, exit>>
    /\ UNCHANGED <<attempt, idx>>
    /\ UnchangedInHandler

\* variant: at the cap the handler gives the record up and goes on with the
\* next one
ExceptNetwork_Skip ==
    /\ pc = "except_net"
    /\ IF RetriesExhausted(attempt, max_retries)
       THEN pc' = "for" /\ idx' = idx + 1
            /\ UNCHANGED <<gen, cause, ndelays, exit>>
       ELSE pc' = "sleep" /\ ndelays' = ndelays + 1
            /\ UNCHANGED <<gen, cause, exit, idx>>
    /\ UNCHANGED attempt
    /\ UnchangedInHandler

\* lines 193-200: the handler of network errors
ExceptNetwork ==
    /\ pc = "except_net"
    /\ IF RetriesExhausted(attempt, max_retries)
       THEN Return("exhausted") /\ UNCHANGED <<ndelays, exit>>
       ELSE pc' = "sleep" /\ ndelays' = ndelays + 1
            /\ UNCHANGED <<gen, cause, exit>>
    /\ UNCHANGED <<attempt, idx>>
    /\ UnchangedInHandler

\* variant: the failed attempt is not counted, the same attempt number is
\* taken again
SleepDone_SameAttempt ==
    /\ pc = "sleep"
    /\ pc' = "range"
    /\ attempt' = attempt - 1
    /\ UNCHANGED <<idx, gen, exit, cause, ndelays>>
    /\ UnchangedInHandler

\* line 200 returns, lines 211-212: job_done is false, next attempt
SleepDone ==
    /\ pc = "sleep"
    /\ pc' = "range"
    /\ UNCHANGED <<attempt, idx, gen, exit, cause, ndelays>>
    /\ UnchangedInHandler

\* KeyboardInterrupt raised in sleep(30) at line 200: the statement is in an
\* except clause, so the clause at line 201 does not apply
InterruptInSleep ==
    /\ pc = "sleep"
    /\ Propagate("interrupt")
    /\ interrupted_in' = "sleep"
    /\ UNCHANGED <<source, cached, file, download, translate, max_retries,
                   output_json, start_at, illustrations, idx, attempt,
                   job_done, new_obj, started, emitted, nattempts,
                   ntransforms, ndelays, nneterrors, failed_in,
                   file_at_start, passed, total_attempts, call>>

\* lines 201-204
ExceptAbort ==
    /\ pc = "except_abort"
    /\ Return("interrupt")
    /\ UNCHANGED <<attempt, idx, exit, ndelays>>
    /\ UnchangedInHandler

\* lines 205-209: e is a local of _process that is unbound here (Python
\* unbinds the name at the end of every `except ... as e` clause), so
\* logging.error(e) raises UnboundLocalError before the return
ExceptOther ==
    /\ pc = "except_other"
    /\ Propagate("unexpected")
    /\ UNCHANGED <<attempt, idx, ndelays>>
    /\ UnchangedInHandler

\* variant: the results are collected and handed over when the batch ends,
\* nothing reaches the consumer record by record
Yield_Collect ==
    /\ pc = "yield"
    /\ IF IsBound(new_obj)
       THEN /\ idx' = idx + 1
            /\ pc' = "for"
            /\ UNCHANGED <<gen, exit, cause>>
       ELSE /\ Propagate("unbound")
            /\ UNCHANGED idx
    /\ UNCHANGED <<emitted, output_json>>
    /\ UNCHANGED <<source, cached, file, download, translate, max_retries,
                   start_at, illustrations, attempt, job_done, new_obj,
                   interrupted_in, started, nattempts, ntransforms, ndelays,
                   nneterrors, failed_in, file_at_start, passed,
                   total_attempts, call>>

\* line 214 and main line 246: yield new_obj, main appends it
Yield ==
    /\ pc = "yield"
    /\ IF IsBound(new_obj)
       THEN /\ emitted' = Append(emitted, new_obj)
            /\ output_json' = Append(output_json, new_obj)
            /\ idx' = idx + 1
            /\ pc' = "for"
            /\ UNCHANGED <<gen, exit, cause>>
       ELSE /\ Propagate("unbound")
            /\ UNCHANGED <<emitted, output_json, idx>>
    /\ UNCHANGED <<source, cached, file, download, translate, max_retries,
                   start_at, illustrations, attempt, job_done, new_obj,
                   interrupted_in, started, nattempts, ntransforms, ndelays,
                   nneterrors, failed_in, file_at_start, passed,
                   total_attempts, call>>

Next ==
    \/ \E d \in BOOLEAN, t \in BOOLEAN, r \in 0..MaxRetriesOpt : StartRun(d, t, r)
    \/ FetchFails
    \/ ForIllustration
    \/ RangeNext
    \/ PassThrough
    \/ TransformAnswered
    \/ TransformNetworkError
    \/ TransformServiceError
    \/ ParseYearMonth
    \/ DownloadOk
    \/ DownloadNetworkError
    \/ DownloadHttpError
    \/ InterruptInTry
    \/ ExceptNetwork
    \/ SleepDone
    \/ InterruptInSleep
    \/ ExceptAbort
    \/ ExceptOther
    \/ Yield
    \/ Persist

Spec == Init /\ [][Next]_vars

\* the steps of a run that has begun: main and _process are one sequential
\* thread whose blocking calls return or raise
RunStep ==
    \/ ForIllustration
    \/ RangeNext
    \/ PassThrough
    \/ TransformAnswered
    \/ TransformNetworkError
    \/ TransformServiceError
    \/ ParseYearMonth
    \/ DownloadOk
    \/ DownloadNetworkError
    \/ DownloadHttpError
    \/ InterruptInTry
    \/ ExceptNetwork
    \/ SleepDone
    \/ InterruptInSleep
    \/ ExceptAbort
    \/ ExceptOther
    \/ Yield
    \/ Persist

FairSpec == Init /\ [][Next]_vars /\ WF_vars(RunStep)

\* The output file is read from disk as it is found (main lines 240-242):
\* runs that start next to a file written earlier, which holds the enriched
\* form of a prefix of the source list or of a source list that was one
\* record longer.
ExistingCollections(src) ==
    LET enriched == [i \in 1..Len(src) |-> Transform(src[i])]
    IN  { SubSeq(enriched, 1, k) : k \in 1..Len(src) }
        \cup { Append(enriched, Transform(SourceRecord(Len(src) + 1, GoodDate))) }

InitExisting ==
    /\ source \in UNION { SourceLists(n) : n \in 0..MaxN }
    /\ \A i \in 1..Len(source) : source[i].published_at = GoodDate
    /\ cached = TRUE
    /\ file \in { [exists |-> TRUE, content |-> c] : c \in ExistingCollections(source) }
    /\ pc = "idle"
    /\ download = FALSE /\ translate = FALSE /\ max_retries = 0
    /\ output_json = <<>>
    /\ start_at = 0
    /\ illustrations = <<>>
    /\ idx = 0
    /\ attempt = 0
    /\ job_done = FALSE
    /\ new_obj = Unbound
    /\ gen = "none"
    /\ exit = "none"
    /\ cause = "none"
    /\ interrupted_in = "none"
    /\ started = <<>>
    /\ emitted = <<>>
    /\ nattempts = 0
    /\ ntransforms = 0
    /\ ndelays = 0
    /\ nneterrors = 0
    /\ failed_in = "none"
    /\ file_at_start = file
    /\ passed = [download |-> FALSE, translate |-> FALSE]
    /\ total_attempts = 0
    /\ call = NoCall

SpecExisting == (Init \/ InitExisting) /\ [][Next]_vars

TypeOK ==
    /\ pc \in {"idle", "for", "range", "try", "parse", "download",
               "except_net", "sleep", "except_abort", "except_other",
               "yield", "persist"}
    /\ gen \in {"none", "running", "completed", "aborted", "raised"}
    /\ exit \in {"none", "clean", "raised"}
    /\ idx \in 0..Len(illustrations)
    /\ attempt \in -1..MaxRetriesOpt

\* ----- single calls of the helper functions --------------------------------
\* The variable call follows one call of _translate, of
\* _get_publibed_year_month or of _transform from its arguments to its
\* return or its exception; the run variables stay in their initial state.

MaxDateParts == 4    \* most dash-separated components of a date portion

\* texts as _translate receives them: None, a string (its tokens), or a list
\* of strings
None == [kind |-> "none", val |-> <<>>]
Str(tokens) == [kind |-> "str", val |-> tokens]
List(strs) == [kind |-> "list", val |-> strs]
EmptyTexts == {None, Str(<<>>), List(<<>>)}
TextValues ==
    EmptyTexts \cup
    {Str(<<"t1">>), Str(<<"t1", "t2">>), Str(<<"t2">>), Str(<<"t2", "t1">>),
     List(<< <<"c1">> >>), List(<< <<"c1">>, <<"c2">> >>),
     List(<< <<"c2">>, <<"c1">> >>), List(<< <<"c1", "c2">> >>)}

\* variant: only None takes the fast path
IsFalsy_NoneOnly(text) == text.kind = "none"

\* line 69: not text or text is None
IsFalsy(text) == text.kind = "none" \/ text.val = <<>>

\* lines 79-80: a list of translations for a list, one translation otherwise
TranslationOf(text) ==
    IF text.kind = "list"
    THEN List([i \in 1..Len(text.val) |-> Translate(text.val[i])])
    ELSE Str(Translate(text.val))

\* published_at values: a date portion of 1..MaxDateParts components (the
\* empty string is the one component ""), alone or followed by a time
DateParts == <<"2020", "01", "05", "07", "09">>
DatePortions ==
    { SubSeq(DateParts, 1, n) : n \in 1..MaxDateParts } \cup { <<"">> }
PublishedAtInputs ==
    { <<dp>> : dp \in DatePortions }
    \cup { <<dp, <<"10:00:00">> >> : dp \in DatePortions }

\* records handed to _transform
TransformInputs ==
    { SourceRecord(1, GoodDate), SourceRecord(2, BadDate),
      [image_url |-> <<"http:", "", "x", "f.png">>,
       published_at |-> GoodDate,
       title |-> <<"t1">>,
       description |-> <<"d1">>,
       categories |-> <<"c1", "c2">>,
       image_alt |-> <<"i1">>],
      [image_url |-> <<"http:", "", "x", "g.png">>,
       published_at |-> GoodDate] }

TranslatedFields == <<"title", "description", "categories", "image_alt">>
EnKey(field) ==
    CASE field = "title" -> "title_en"
      [] field = "description" -> "description_en"
      [] field = "categories" -> "categories_en"
      [] field = "image_alt" -> "image_alt_en"

RunIdle ==
    /\ pc = "idle"
    /\ UNCHANGED <<source, cached, file, pc, download, translate, max_retries,
                   output_json, start_at, illustrations, idx, attempt,
                   job_done, new_obj, gen, exit, cause, interrupted_in,
                   started, emitted, nattempts, ntransforms, ndelays,
                   nneterrors, failed_in, file_at_start, passed,
                   total_attempts>>

\* _translate is called (line 57)
TranslateCall(text) ==
    /\ call = NoCall
    /\ call' = [fn |-> "translate", text |-> text, at |-> "check",
                requests |-> 0, pause |-> 0, translation |-> None,
                result |-> None]
    /\ RunIdle

\* lines 69-70: the fast path returns '' at once
TranslateCheck ==
    /\ call.fn = "translate" /\ call.at = "check"
    /\ call' = IF IsFalsy(call.text)
               THEN [call EXCEPT !.at = "returned", !.result = Str(<<>>)]
               ELSE [call EXCEPT !.at = "request"]
    /\ RunIdle

\* lines 71-75: the translation request is answered
TranslateRequestOk ==
    /\ call.fn = "translate" /\ call.at = "request"
    /\ call' = [call EXCEPT !.at = "sleep",
                            !.requests = @ + 1,
                            !.translation = TranslationOf(call.text)]
    /\ RunIdle

\* lines 72-75: the request raises; line 77 is not reached
TranslateRequestFails ==
    /\ call.fn = "translate" /\ call.at = "request"
    /\ call' = [call EXCEPT !.at = "raised", !.requests = @ + 1]
    /\ RunIdle

\* line 77: sleep(randint(3, 6))
TranslatePause(n) ==
    /\ call.fn = "translate" /\ call.at = "sleep"
    /\ call' = [call EXCEPT !.at = "return", !.pause = @ + n]
    /\ RunIdle

\* lines 79-80
TranslateReturn ==
    /\ call.fn = "translate" /\ call.at = "return"
    /\ call' = [call EXCEPT !.at = "returned", !.result = call.translation]
    /\ RunIdle

\* _get_publibed_year_month is called and returns or raises (lines 154-155)
YearMonthCall(published_at) ==
    /\ call = NoCall
    /\ LET ym == GetPublishedYearMonth(published_at)
       IN  call' = [fn |-> "year_month", arg |-> published_at,
                    at |-> IF ym.ok THEN "returned" ELSE "raised",
                    result |-> IF ym.ok THEN <<ym.year, ym.month>> ELSE <<>>]
    /\ RunIdle

\* _transform is called (line 109): heap[ref] is the dict behind a
\* reference, the caller's record is reference 1
TransformCall(rec) ==
    /\ call = NoCall
    /\ call' = [fn |-> "transform", heap |-> <<rec>>, original |-> 1,
                new_obj |-> 0, at |-> "copy", field |-> 1,
                before |-> rec, result |-> 0]
    /\ RunIdle

\* variant: new_obj is the caller's dict itself, not a copy
TransformCopy_Alias ==
    /\ call.fn = "transform" /\ call.at = "copy"
    /\ call' = [call EXCEPT !.new_obj = call.original, !.at = "fields"]
    /\ RunIdle

\* line 120: new_obj = {**original}
TransformCopy ==
    /\ call.fn = "transform" /\ call.at = "copy"
    /\ call' = [call EXCEPT !.heap = Append(@, @[call.original]),
                            !.new_obj = Len(call.heap) + 1,
                            !.at = "fields"]
    /\ RunIdle

\* the text of the field that lines 121-124 translate next
FieldText(c) == Get(c.heap[c.new_obj], TranslatedFields[c.field], <<>>)

\* lines 121-124: new_obj[field_en] = _translate(new_obj.get(field, ''))
TransformField ==
    /\ call.fn = "transform" /\ call.at = "fields"
    /\ LET key == EnKey(TranslatedFields[call.field])
           val == Translate(FieldText(call))
       IN  call' = [call EXCEPT
                       !.heap[call.new_obj] = (key :> val) @@ @,
                       !.field = @ + 1,
                       !.at = IF call.field = Len(TranslatedFields)
                              THEN "path" ELSE "fields"]
    /\ RunIdle

\* lines 121-124: the request of a non-empty field raises
TransformFieldFails ==
    /\ call.fn = "transform" /\ call.at = "fields"
    /\ FieldText(call) # <<>>
    /\ call' = [call EXCEPT !.at = "raised"]
    /\ RunIdle

\* lines 126-130: the directory path, from the original's published_at
TransformPath ==
    /\ call.fn = "transform" /\ call.at = "path"
    /\ LET orig == call.heap[call.original]
           ym == GetPublishedYearMonth(Get(orig, "published_at", EmptyStr))
           filename == GetFilenameFromUrl(Get(orig, "image_url", <<"">>))
           path == <<".", "images", ym.year, ym.month, filename>>
       IN  call' = IF ym.ok
                   THEN [call EXCEPT
                            !.heap[call.new_obj] = ("directory_path" :> path) @@ @,
                            !.at = "returned",
                            !.result = call.new_obj]
                   ELSE [call EXCEPT !.at = "raised"]
    /\ RunIdle

CallsNext ==
    \/ \E text \in TextValues : TranslateCall(text)
    \/ TranslateCheck
    \/ TranslateRequestOk
    \/ TranslateRequestFails
    \/ \E n \in 3..6 : TranslatePause(n)
    \/ TranslateReturn
    \/ \E p \in PublishedAtInputs : YearMonthCall(p)
    \/ \E rec \in TransformInputs : TransformCall(rec)
    \/ TransformCopy
    \/ TransformField
    \/ TransformFieldFails
    \/ TransformPath

InitCalls == Init /\ source = <<>>

SpecCalls == InitCalls /\ [][CallsNext]_vars

\* ----- properties ---------------------------------------------------------

\* what line 180 leaves in new_obj for a record in the current run
Processed(rec) == IF translate THEN Transform(rec) ELSE rec

\* the run's generator has been created (start_at, illustrations are set)
InRun == gen # "none"

\* C1  Resumption: with K = start_at < N = Len(source), the records whose
\* attempts begin are the source records K, K+1, ... in that order and never
\* one below K; when the generator finishes without an abort they are exactly
\* K..N-1, N-K records were appended and the collection has length N.
C1_Resumption ==
    (InRun /\ start_at < Len(source)) =>
        /\ \A i \in 1..Len(started) : started[i] = start_at + i - 1
        /\ gen = "completed" =>
              /\ Len(started) = Len(source) - start_at
              /\ Len(emitted) = Len(source) - start_at
              /\ Len(output_json) = Len(source)

C1_Witness ==
    /\ gen = "completed" /\ exit = "clean"
    /\ start_at = 1 /\ Len(source) = 3
    /\ started = <<1, 2>>
    /\ Len(output_json) = 3

C3_Idempotence ==
    (InRun /\ start_at >= Len(source)) =>
        /\ started = <<>>
        /\ emitted = <<>>
        /\ output_json = LoadOutput(file_at_start)
        /\ LoadOutput(file) = LoadOutput(file_at_start)

\* a translate run over a complete file has rewritten it
C3_Witness ==
    /\ exit = "clean" /\ gen = "completed"
    /\ translate
    /\ file_at_start.exists
    /\ Len(source) = 2 /\ start_at = 2
    /\ file = file_at_start

\* C4  Retry exhaustion: once max_retries network errors have been raised on
\* one record and handled, the generator has returned; the records emitted
\* are exactly the processed records before the failing one, the failing
\* record is the last one attempted, and the collection is the loaded one
\* followed by the emitted ones.
C4_RetryExhaustion ==
    (InRun /\ max_retries >= 1 /\ nneterrors = max_retries
           /\ pc # "except_net") =>
        /\ gen = "aborted" /\ cause = "exhausted"
        /\ nattempts = max_retries
        /\ Len(emitted) = idx
        /\ \A i \in 1..idx : emitted[i] = Processed(illustrations[i])
        /\ Len(started) = idx + 1
        /\ started[Len(started)] = start_at + idx
        /\ output_json = LoadOutput(file_at_start) \o emitted

C4_Witness ==
    /\ cause = "exhausted" /\ exit = "clean"
    /\ max_retries = 2 /\ nneterrors = 2
    /\ idx = 1 /\ Len(illustrations) = 3
    /\ Len(emitted) = 1

\* C5  A user interrupt at any point of the batch, the delay between two
\* attempts included, puts the batch in Aborted: the generator returns, the
\* current record is not emitted and no later record is attempted.
C5_InterruptAborts ==
    (InRun /\ interrupted_in # "none" /\ pc # "except_abort") =>
        /\ gen = "aborted" /\ cause = "interrupt"
        /\ Len(emitted) = idx
        /\ Len(started) = idx + 1

\* C6  A failure that is neither a network error nor a user interrupt puts
\* the batch in Aborted like the other abort causes: the generator returns
\* and the run goes on to its end.
C6_UnexpectedAborts ==
    (InRun /\ cause = "unexpected") =>
        /\ gen = "aborted"
        /\ exit # "raised"
        /\ Len(emitted) = idx

\* C7  Retry policy: every network error but the one of the last allowed
\* attempt is followed by one delay and a new attempt that starts again at
\* line 180 (the transform is called once per attempt when translate is on);
\* a record has at most max_retries attempts and max_retries - 1 delays.
C7_RetryPolicy ==
    InRun =>
        /\ nattempts <= max_retries
        /\ ndelays <= nneterrors
        /\ max_retries >= 1 => ndelays <= max_retries - 1
        /\ pc \in {"try", "parse", "download"} =>
              /\ nattempts = nneterrors + 1
              /\ ndelays = nneterrors
              /\ attempt = nneterrors
        /\ pc = "except_net" =>
              /\ nattempts = nneterrors
              /\ ndelays = nneterrors - 1
        /\ pc = "sleep" =>
              /\ ndelays = nneterrors
              /\ nattempts = nneterrors
              /\ nattempts < max_retries
        /\ (translate /\ pc = "try") => ntransforms = nattempts - 1
        /\ (translate /\ pc \in {"parse", "download"}) =>
              ntransforms = nattempts

\* the download of the first attempt failed and the second attempt has
\* translated the record again
C7_Witness ==
    /\ translate /\ download
    /\ failed_in = "download"
    /\ pc = "parse"
    /\ nattempts = 2 /\ ndelays = 1 /\ ntransforms = 2

\* C8  A run leaves main without an exception whenever the batch ended by
\* success, by a user interrupt or by a batch abort.
C8_CleanExit ==
    (InRun /\ pc = "idle"
           /\ cause \in {"none", "exhausted", "interrupt", "unexpected"}) =>
        exit = "clean"

\* C9  A download-only run never writes the output file: at every point of
\* the run the file is the one the run found, so the next run computes the
\* same resume offset.
C9_DownloadOnly ==
    (InRun /\ ~translate) =>
        /\ file = file_at_start
        /\ Len(LoadOutput(file)) = start_at

\* a finished download-only run that emitted records next to an existing file
C9_Witness ==
    /\ ~translate /\ download
    /\ exit = "clean" /\ gen = "completed"
    /\ file_at_start.exists /\ start_at = 1
    /\ Len(emitted) = 2
    /\ Len(output_json) = 3
    /\ Len(file.content) = 1

\* C10  The emitted records are, in order, the processed forms of an initial
\* segment of the input list; the sequence is shorter than the input after
\* the generator stopped only if the whole batch was aborted.
C10_OrderedPrefix ==
    InRun =>
        /\ Len(emitted) <= Len(illustrations)
        /\ \A i \in 1..Len(emitted) : emitted[i] = Processed(illustrations[i])
        /\ (gen # "running" /\ Len(emitted) < Len(illustrations)) =>
              (gen \in {"aborted", "raised"} /\ cause # "none")

\* an aborted batch that had emitted a proper, non-empty initial segment
C10_Witness ==
    /\ gen = "aborted" /\ pc = "idle"
    /\ Len(illustrations) = 3
    /\ Len(emitted) = 2
    /\ emitted[2] = Processed(illustrations[2])

\* C14  Flag resolution: with neither flag given both are enabled; with at
\* least one given each keeps the given value, so only the requested steps
\* run and the file is written only if translate was given.
C14_FlagResolution ==
    InRun =>
        /\ (~passed.download /\ ~passed.translate) => (download /\ translate)
        /\ (passed.download \/ passed.translate) =>
              /\ download = passed.download
              /\ translate = passed.translate
              /\ ntransforms > 0 => passed.translate
              /\ pc = "download" => passed.download
              /\ file # file_at_start => passed.translate

\* neither flag given: the record was transformed and is being downloaded
C14_Witness ==
    /\ ~passed.download /\ ~passed.translate
    /\ pc = "download"
    /\ ntransforms = 1

\* C15  Laziness: a record's attempts begin only when every earlier record
\* of the batch has been emitted and appended to main's collection.
C15_Laziness ==
    InRun =>
        /\ Len(started) <= Len(emitted) + 1
        /\ output_json = LoadOutput(file_at_start) \o emitted

\* the second record is being attempted, the first is in the collection
C15_Witness ==
    /\ pc = "try"
    /\ Len(started) = 2
    /\ Len(emitted) = 1
    /\ Len(output_json) = start_at + 1

\* C16  An HTTP status error of the download is not retried and not followed
\* by a delay: once handled, the batch has stopped.
C16_HttpErrorNotRetried ==
    (InRun /\ failed_in = "http" /\ pc # "except_net") =>
        gen \in {"aborted", "raised"}

\* C18  Every emitted record is the processed form of its own source record,
\* for every max_retries; with max_retries = 0 nothing is attempted, nothing
\* is emitted and the batch ends without an error.
C18_EmittedFromSuccess ==
    InRun =>
        /\ \A i \in 1..Len(emitted) : emitted[i] = Processed(illustrations[i])
        /\ max_retries = 0 =>
              /\ total_attempts = 0
              /\ emitted = <<>>
              /\ exit # "raised"

\* C19  Resume after abort: when a translate run has ended after an abort by
\* retry exhaustion, user interrupt or unexpected failure, the file holds the
\* loaded collection followed by the records the run emitted.
C19_ResumeAfterAbort ==
    (InRun /\ translate /\ pc = "idle"
           /\ cause \in {"exhausted", "interrupt", "unexpected"}) =>
        LoadOutput(file) = LoadOutput(file_at_start) \o emitted

\* C20  Termination: with max_retries >= 1 a batch that runs eventually
\* stops; a record has at most max_retries attempts, the batch at most
\* Len(illustrations) * max_retries, and when the generator finishes every
\* record it started was emitted.
C20_Termination ==
    /\ [](InRun /\ max_retries >= 1 =>
            /\ nattempts <= max_retries
            /\ total_attempts <= Len(illustrations) * max_retries
            /\ gen = "completed" => Len(emitted) = Len(started))
    /\ (gen = "running" /\ max_retries >= 1) ~> (gen # "running")

\* an aborted batch that used every attempt of both records it started
C20_Witness ==
    /\ gen = "aborted" /\ cause = "exhausted"
    /\ max_retries = 2
    /\ Len(started) = 2
    /\ total_attempts = 4

\* C11  Every _translate call with a non-empty text has paused 3 to 6 time
\* units when control is back at the caller, by return or by exception.
C11_PauseAfterEveryCall ==
    (call.fn = "translate" /\ call.text \notin EmptyTexts
                           /\ call.at \in {"returned", "raised"}) =>
        call.pause \in 3..6

\* C12  For None, '' and [] _translate returns '' and has issued no request
\* and taken no pause.
C12_EmptyTextFastPath ==
    (call.fn = "translate" /\ call.text \in EmptyTexts) =>
        /\ call.requests = 0
        /\ call.pause = 0
        /\ call.at \in {"check", "returned"}
        /\ call.at = "returned" => call.result = Str(<<>>)

\* the call with the empty list has returned the empty string
C12_Witness ==
    /\ call.fn = "translate"
    /\ call.text = List(<<>>)
    /\ call.at = "returned"
    /\ call.result = Str(<<>>)

\* C13  Year/month extraction returns the first two components of the date
\* portion when it has at least two, and fails when it has fewer.
C13_YearMonth ==
    call.fn = "year_month" =>
        LET date == call.arg[1]
        IN  /\ Len(date) >= 2 =>
                  /\ call.at = "returned"
                  /\ call.result = <<date[1], date[2]>>
            /\ Len(date) < 2 => call.at = "raised"

\* C17  _transform leaves the caller's record as it was, at every point of
\* the call and whether it returns or raises; the result is another dict
\* with the source keys and values plus the five new keys, the enriched
\* record.
NewKeys ==
    {"title_en", "description_en", "categories_en", "image_alt_en",
     "directory_path"}

C17_TransformFrame ==
    call.fn = "transform" =>
        /\ call.heap[call.original] = call.before
        /\ call.at = "returned" =>
              /\ call.result # call.original
              /\ DOMAIN call.heap[call.result] = DOMAIN call.before \cup NewKeys
              /\ \A k \in DOMAIN call.before :
                    call.heap[call.result][k] = call.before[k]
              /\ call.heap[call.result] = Transform(call.before)

\* a call on a record with all four text fields has returned
C17_Witness ==
    /\ call.fn = "transform"
    /\ call.at = "returned"
    /\ "description" \in DOMAIN call.before
    /\ call.result = 2
    /\ call.heap[1] = call.before

=============================================================================
